---- MODULE Spec2Model ----
(***************************************************************************)
(* The useDrafty hook of react-usedrafty (src/src/index.ts) as a state     *)
(* machine: one hook instance at a time over an ambient key-value store    *)
(* (localStorage / sessionStorage), the parent's live form value, the      *)
(* hook's React state (hasDraft, initialDraft), its debounce timer and the *)
(* queue of React state updates awaiting the next render.                  *)
(*                                                                         *)
(* React is modelled as follows.  A setter call (setHasDraft,              *)
(* setInitialDraft, the parent's setter passed as updateFormState) queues  *)
(* an update; the Render step commits the queue and runs the effects whose *)
(* dependencies changed.  While updates are queued, Render is the only     *)
(* step, which is React flushing the updates of an effect or event handler *)
(* before anything else runs.  Timers are untimed: a pending timeout may   *)
(* fire at any later step, and "a change arrives before the delay elapsed" *)
(* is a change that happens while the timeout is still pending.            *)
(***************************************************************************)
EXTENDS Integers, Sequences, FiniteSets, TLC

\* ------------------------------------------------------------------ bounds

\* how many times the autosave effect may re-arm its timer before it fires
MaxBurst == 2

\* --------------------------------------------------------------- JS values

\* A JS value: null, or an object with an ordered list of own properties,
\* each holding a number or undefined.
JsNull == [t |-> "null", props |-> <<>>]
Obj(props) == [t |-> "object", props |-> props]
Num(k, n) == [k |-> k, t |-> "number", n |-> n]
Undef(k) == [k |-> k, t |-> "undefined", n |-> 0]

PropKeys == {"a", "b", "c"}
PropNums == {1, 2}

\* the property lists JSON text can denote: numbers only, no key twice
JsonPropLists ==
  {<<>>}
    \cup {<<Num(k, n)>> : k \in PropKeys, n \in PropNums}
    \cup {<<Num(kk[1], n1), Num(kk[2], n2)>> :
            kk \in {x \in PropKeys \X PropKeys : x[1] # x[2]},
            n1 \in PropNums, n2 \in PropNums}

\* the values JSON.parse can return in this universe
JsonValues == {JsNull} \cup {Obj(ps) : ps \in JsonPropLists}

Digits == <<"0", "1", "2", "3", "4", "5", "6", "7", "8", "9">>
NumStr(n) == Digits[n + 1]
PropStr(p) == "\"" \o p.k \o "\":" \o NumStr(p.n)

RECURSIVE JoinProps(_)
JoinProps(ps) ==
  IF ps = <<>> THEN ""
  ELSE IF Len(ps) = 1 THEN PropStr(ps[1])
  ELSE PropStr(ps[1]) \o "," \o JoinProps(Tail(ps))

IsDefined(p) == p.t # "undefined"

\* JSON.stringify: null is "null"; an object lists its properties in
\* insertion order and omits those whose value is undefined
JSONstringify(v) ==
  IF v.t = "null" THEN "null"
  ELSE "{" \o JoinProps(SelectSeq(v.props, IsDefined)) \o "}"

\* JSON.parse: the value a text denotes; it throws on any other text
JsonTexts == {JSONstringify(v) : v \in JsonValues}
JsonDenotation == [s \in JsonTexts |-> CHOOSE v \in JsonValues : JSONstringify(v) = s]
JSONparses(s) == s \in JsonTexts
JSONparse(s) == JsonDenotation[s]

\* the live form values the parent may hold
\*   Vab  = {a: 1, b: 2}
\*   Vba  = {b: 2, a: 1}                the same content in another key order
\*   Vabu = {a: 1, b: 2, c: undefined}  a field that is present but not set
Vab == Obj(<<Num("a", 1), Num("b", 2)>>)
Vba == Obj(<<Num("b", 2), Num("a", 1)>>)
Vabu == Obj(<<Num("a", 1), Num("b", 2), Undef("c")>>)
FormValues == {Vab, Vba, Vabu}

\* the form value the parent starts with
InitialForm == Vab

\* a stored text that is not JSON
Corrupt == "{oops"

\* ----------------------------------------------------------------- storage

DraftKeys == {"k1", "k2"}
\* the key the component is mounted with (it may change to the other later)
MountKey == "k1"
SubmittedKey(k) == "submitted:" \o k

\* Storage is a function from the keys that have an item to its text.
\* getItem returns <<text>>, or <<>> for null.
getItem(st, k) == IF k \in DOMAIN st THEN <<st[k]>> ELSE <<>>
setItem(st, k, s) == [x \in (DOMAIN st) \cup {k} |-> IF x = k THEN s ELSE st[x]]
removeItem(st, k) == [x \in (DOMAIN st) \ {k} |-> st[x]]

\* the texts a draft key may hold when the page loads, and every content the
\* store may have then (written by earlier page loads or other code)
DraftTexts == {JSONstringify(v) : v \in FormValues} \cup {Corrupt}
StorageKeys == DraftKeys \cup {SubmittedKey(k) : k \in DraftKeys}
InitStorages ==
  {st \in UNION {[D -> DraftTexts \cup {"true"}] : D \in SUBSET StorageKeys} :
     \A k \in DOMAIN st : IF k \in DraftKeys THEN st[k] \in DraftTexts
                           ELSE k = SubmittedKey(MountKey) /\ st[k] = "true"}

\* the debounce option: not given (0 by default), or a positive delay in ms
DefaultDebounce == 0
ExampleDebounce == 500
DebounceOptions == {DefaultDebounce, ExampleDebounce}

\* the two modules of the repository that implement useDrafty: src/index.ts
\* and the variant with the router option
Variants == {"index", "router"}

\* the values of the warnOnLeave option: boolean | string | (() => boolean |
\* string); of a function, rt, b and s are the type and the value it returns
Bool(b) == [t |-> "boolean", rt |-> "boolean", b |-> b, s |-> ""]
Str(s) == [t |-> "string", rt |-> "string", b |-> FALSE, s |-> s]
Fn(r) == [t |-> "function", rt |-> r.t, b |-> r.b, s |-> r.s]
CustomMessage == "Leave?"
WarnResults == {Bool(FALSE), Bool(TRUE), Str(""), Str(CustomMessage)}
WarnOptions == WarnResults \cup {Fn(r) : r \in WarnResults}

\* typeof warnOnLeave === "function" ? warnOnLeave() : warnOnLeave
Call(w) == IF w.t = "function" THEN [t |-> w.rt, rt |-> w.rt, b |-> w.b, s |-> w.s] ELSE w

\* JavaScript's truthiness of a value of warnOnLeave
Truthy(w) ==
  CASE w.t = "boolean" -> w.b
    [] w.t = "string" -> w.s # ""
    [] OTHER -> TRUE

\* the router option: not given, an object with onRouteChangeStart and
\* offRouteChangeStart, one with block, one with prefetch and push, another
Routers == {"none", "pages", "block", "app", "unknown"}

\* the options that guard leaving; warnOnLeave = false and no router by default
GuardOptions == [variant : Variants, warnOnLeave : WarnOptions, router : Routers]
DefaultGuard == [variant |-> "index", warnOnLeave |-> Bool(FALSE), router |-> "none"]

\* what the last signal of the browser or the router led to
NoSignal == [kind |-> "none", prevented |-> FALSE, message |-> ""]
Reconfigured == [kind |-> "options", prevented |-> FALSE, message |-> ""]

\* ------------------------------------------------------------------- state

VARIABLES
  storage,           \* localStorage / sessionStorage
  mounted,           \* a hook instance is active
  storageKey,        \* the storageKey argument of the last render
  currentFormState,  \* the currentFormState argument of the last render
  debounce,          \* options.debounce
  hasDraft,          \* useState(false)
  initialDraft,      \* useState(null)
  queued,            \* the state updates queued for the next render
  timers,            \* the pending timeouts, each with the closure it runs
  sinkCalls,         \* history: the arguments of updateFormState, this activation
  restoreCalls,      \* history: the arguments of onRestore, this activation
  lastSaved,         \* history: the value of the last successful save under
                     \*   MountKey, <<>> if none or cleared since
  burstN,            \* history: how often the pending timeout was (re)armed
  autosaved,         \* history: the values the timeouts of this burst saved
  cleared,           \* history: how clearDraft was last called with effect in
                     \*   this activation: "no", "plain" or "submitted"
  afterClear,        \* history: "cleared" or "failed" after a clearDraft that
                     \*   removed the entry or failed to, until the next change
                     \*   of the form value, saveDraft call or activation;
                     \*   "none" otherwise
  owed,              \* history: <<[key, value]>> of the last run of the autosave
                     \*   effect, <<>> once a clear, a key change, an unmount
                     \*   or a failed save came after it
  variant,           \* the module the component imports useDrafty from
  warnOnLeave,       \* options.warnOnLeave
  router,            \* options.router
  unloadListeners,   \* the beforeunload listeners of window, in order
  routeSubs,         \* the handlers and blocks installed on the router, in order
  signal             \* history: the outcome of the last beforeunload or route
                     \*   change since the options were last set, Reconfigured
                     \*   when a re-render set them last

vars ==
  <<storage, mounted, storageKey, currentFormState, debounce, hasDraft, initialDraft,
    queued, timers, sinkCalls, restoreCalls, lastSaved, burstN, autosaved, cleared,
    afterClear, owed, variant, warnOnLeave, router, unloadListeners, routeSubs, signal>>

guardVars == <<variant, warnOnLeave, router, unloadListeners, routeSubs, signal>>

\* A queue of state updates: per state cell, <<>> or <<the value set last>>.
NoUpdates == [form |-> <<>>, initialDraft |-> <<>>, hasDraft |-> <<>>]

\* the Submitted Flag of key k is set in store st
Submitted(st, k) == getItem(st, SubmittedKey(k)) = <<"true">>

\* -------------------------------------------------------- the hook's code

\* const isDirty = JSON.stringify(initialDraft) !== JSON.stringify(currentFormState)
isDirty == JSONstringify(initialDraft) # JSONstringify(currentFormState)

\* faulty variant: saveDraft with setHasDraft(true) after the try
saveDraftHasDraftAnyway(st, q, k, v, ok) ==
  [storage |-> IF ok THEN setItem(st, k, JSONstringify(v)) ELSE st,
   queued |-> [q EXCEPT !.hasDraft = <<TRUE>>]]

\* faulty variant: saveDraft without its setHasDraft(true)
saveDraftNoHasDraft(st, q, k, v, ok) ==
  IF ok
  THEN [storage |-> setItem(st, k, JSONstringify(v)), queued |-> q]
  ELSE [storage |-> st, queued |-> q]

\* faulty variant: saveDraft with the arguments of setItem swapped
saveDraftSwapped(st, q, k, v, ok) ==
  IF ok
  THEN [storage |-> setItem(st, JSONstringify(v), k),
        queued |-> [q EXCEPT !.hasDraft = <<TRUE>>]]
  ELSE [storage |-> st, queued |-> q]

\* saveDraft with the storageKey k and currentFormState v of its closure;
\* ok says whether storage.setItem returns (it may throw, e.g. on quota)
saveDraft(st, q, k, v, ok) ==
  IF ok
  THEN [storage |-> setItem(st, k, JSONstringify(v)),
        queued |-> [q EXCEPT !.hasDraft = <<TRUE>>]]
  ELSE [storage |-> st, queued |-> q]

\* faulty variant: clearDraft with its two setters after the try
clearDraftResetAnyway(st, q, k, opts, ok) ==
  [storage |-> IF ok THEN removeItem(st, k) ELSE st,
   queued |-> [q EXCEPT !.hasDraft = <<FALSE>>, !.initialDraft = <<JsNull>>]]

\* clearDraft; the code declares no parameter, so the argument a caller
\* passes (opts) is ignored; ok says whether storage.removeItem returns
clearDraft(st, q, k, opts, ok) ==
  IF ok
  THEN [storage |-> removeItem(st, k),
        queued |-> [q EXCEPT !.hasDraft = <<FALSE>>, !.initialDraft = <<JsNull>>]]
  ELSE [storage |-> st, queued |-> q]

\* faulty variant: the restore effect with updateFormState called twice
restoreEffectSinkTwice(st, k, cb, ok) ==
  LET saved == getItem(st, k)
  IN IF ok /\ saved # <<>> /\ saved[1] # "" /\ JSONparses(saved[1])
     THEN LET parsedDraft == JSONparse(saved[1])
          IN [sink |-> <<parsedDraft, parsedDraft>>,
              queued |-> [form |-> <<parsedDraft>>, initialDraft |-> <<parsedDraft>>,
                          hasDraft |-> <<TRUE>>],
              callback |-> IF cb THEN <<parsedDraft>> ELSE <<>>]
     ELSE [sink |-> <<>>, queued |-> NoUpdates, callback |-> <<>>]

\* faulty variant: the restore effect with setHasDraft(true) before JSON.parse
restoreEffectEagerHasDraft(st, k, cb, ok) ==
  LET saved == getItem(st, k)
  IN IF ok /\ saved # <<>> /\ saved[1] # ""
     THEN IF JSONparses(saved[1])
          THEN LET parsedDraft == JSONparse(saved[1])
               IN [sink |-> <<parsedDraft>>,
                   queued |-> [form |-> <<parsedDraft>>, initialDraft |-> <<parsedDraft>>,
                               hasDraft |-> <<TRUE>>],
                   callback |-> IF cb THEN <<parsedDraft>> ELSE <<>>]
          ELSE [sink |-> <<>>, queued |-> [NoUpdates EXCEPT !.hasDraft = <<TRUE>>],
                callback |-> <<>>]
     ELSE [sink |-> <<>>, queued |-> NoUpdates, callback |-> <<>>]

\* faulty variant: the restore effect without its setInitialDraft(parsedDraft)
restoreEffectNoInitialDraft(st, k, cb, ok) ==
  LET saved == getItem(st, k)
  IN IF ok /\ saved # <<>> /\ saved[1] # "" /\ JSONparses(saved[1])
     THEN LET parsedDraft == JSONparse(saved[1])
          IN [sink |-> <<parsedDraft>>,
              queued |-> [form |-> <<parsedDraft>>, initialDraft |-> <<>>,
                          hasDraft |-> <<TRUE>>],
              callback |-> IF cb THEN <<parsedDraft>> ELSE <<>>]
     ELSE [sink |-> <<>>, queued |-> NoUpdates, callback |-> <<>>]

\* faulty variant: the restore effect without its setHasDraft(true)
restoreEffectNoHasDraft(st, k, cb, ok) ==
  LET saved == getItem(st, k)
  IN IF ok /\ saved # <<>> /\ saved[1] # "" /\ JSONparses(saved[1])
     THEN LET parsedDraft == JSONparse(saved[1])
          IN [sink |-> <<parsedDraft>>,
              queued |-> [form |-> <<parsedDraft>>, initialDraft |-> <<parsedDraft>>,
                          hasDraft |-> <<>>],
              callback |-> IF cb THEN <<parsedDraft>> ELSE <<>>]
     ELSE [sink |-> <<>>, queued |-> NoUpdates, callback |-> <<>>]

\* the restore effect, run for storageKey k; ok says whether storage.getItem
\* returns.  It yields the calls it makes: to updateFormState (sink), to
\* onRestore (callback) and to the state setters (queued).
restoreEffect(st, k, cb, ok) ==
  LET saved == getItem(st, k)
  IN IF ok /\ saved # <<>> /\ saved[1] # "" /\ JSONparses(saved[1])
     THEN LET parsedDraft == JSONparse(saved[1])
          IN [sink |-> <<parsedDraft>>,
              queued |-> [form |-> <<parsedDraft>>, initialDraft |-> <<parsedDraft>>,
                          hasDraft |-> <<TRUE>>],
              callback |-> IF cb THEN <<parsedDraft>> ELSE <<>>]
     ELSE [sink |-> <<>>, queued |-> NoUpdates, callback |-> <<>>]

\* faulty variant: setTimeout without the clearTimeout before it
armTimerNoClear(ts, k, v) == ts \cup {[key |-> k, value |-> v]}

\* faulty variant: the autosave effect without its setTimeout
autosaveEffectNoTimer(st, q, ts, d, k, v, ok) ==
  IF d > 0
  THEN [storage |-> st, queued |-> q, timers |-> ts]
  ELSE LET s == saveDraft(st, q, k, v, ok)
       IN [storage |-> s.storage, queued |-> s.queued, timers |-> ts]

\* if (debounceTimer.current) clearTimeout(debounceTimer.current);
\* debounceTimer.current = setTimeout(() => saveDraft(), debounce)
\* ts are the pending timeouts of the instance: debounceTimer.current is the
\* one set last, and every one before it was cleared when the next was set.
armTimer(ts, k, v) == (ts \ ts) \cup {[key |-> k, value |-> v]}

\* the autosave effect of a render with storageKey k and currentFormState v
autosaveEffect(st, q, ts, d, k, v, ok) ==
  IF d > 0
  THEN [storage |-> st, queued |-> q, timers |-> armTimer(ts, k, v)]
  ELSE LET s == saveDraft(st, q, k, v, ok)
       IN [storage |-> s.storage, queued |-> s.queued, timers |-> ts]

\* ---------------------------------------------------- the guards' code

IndexMessage == "You have unsaved changes. Are you sure you want to leave?"
RouterMessage == "You have unsaved changes."

\* getMessage of the router variant
getMessage(w) == LET res == Call(w) IN IF res.t = "string" THEN res.s ELSE RouterMessage

\* beforeUnloadHandler, of module vr and with warnOnLeave = w in its closure:
\* whether it calls e.preventDefault(), and the e.returnValue it sets
beforeUnloadHandler(vr, w) ==
  IF vr = "index"
  THEN LET shouldWarn == Call(w)
       IN IF Truthy(shouldWarn)
          THEN [prevented |-> TRUE,
                message |-> IF shouldWarn.t = "string" THEN shouldWarn.s ELSE IndexMessage]
          ELSE [prevented |-> FALSE, message |-> ""]
  ELSE [prevented |-> TRUE, message |-> getMessage(w)]

\* a sequence without the first occurrence of x
RECURSIVE Without(_, _)
Without(ls, x) ==
  IF ls = <<>> THEN <<>>
  ELSE IF Head(ls) = x THEN Tail(ls)
  ELSE <<Head(ls)>> \o Without(Tail(ls), x)

\* faulty variant: a removeEventListener that removes nothing
removeEventListenerNoop(ls, h) == ls

\* window.addEventListener / window.removeEventListener("beforeunload", h)
addEventListener(ls, h) == Append(ls, h)
removeEventListener(ls, h) == Without(ls, h)

\* the beforeunload effect and its cleanup, for module vr and warnOnLeave = w
unloadEffect(ls, vr, w) ==
  IF Truthy(w) THEN addEventListener(ls, [variant |-> vr, warnOnLeave |-> w]) ELSE ls
unloadCleanup(ls, vr, w) ==
  IF Truthy(w) THEN removeEventListener(ls, [variant |-> vr, warnOnLeave |-> w]) ELSE ls

\* what the router effect installs on router r: a route-change handler
\* with warnOnLeave in its closure, or a block with the message of now
routeSub(w, r) ==
  IF r = "pages"
  THEN [kind |-> "handler", warnOnLeave |-> w, message |-> ""]
  ELSE [kind |-> "block", warnOnLeave |-> w, message |-> getMessage(w)]

\* faulty variant: every router that is not of the pages kind is blocked
routerEffectBlockAlways(subs, vr, w, r) ==
  IF vr = "router" /\ Truthy(w) /\ r # "none"
  THEN Append(subs, routeSub(w, r))
  ELSE subs

\* the router effect and its cleanup; src/index.ts has none
routerEffect(subs, vr, w, r) ==
  IF vr = "router" /\ Truthy(w) /\ r \in {"pages", "block"}
  THEN Append(subs, routeSub(w, r))
  ELSE subs
routerCleanup(subs, vr, w, r) ==
  IF vr = "router" /\ Truthy(w) /\ r \in {"pages", "block"}
  THEN Without(subs, routeSub(w, r))
  ELSE subs

\* the outcome of a beforeunload event dispatched to the listeners ls
RECURSIVE dispatchUnload(_, _)
dispatchUnload(ls, out) ==
  IF ls = <<>> THEN out
  ELSE LET h == beforeUnloadHandler(Head(ls).variant, Head(ls).warnOnLeave)
       IN dispatchUnload(Tail(ls),
            IF h.prevented
            THEN [kind |-> "beforeunload", prevented |-> TRUE, message |-> h.message]
            ELSE out)

\* the outcome of a route change that starts with subs installed: each asks
\* the user to confirm its message, and cancels the navigation if refused
RECURSIVE dispatchRoute(_, _, _)
dispatchRoute(subs, confirmed, out) ==
  IF subs = <<>> THEN out
  ELSE LET m == IF Head(subs).kind = "handler" THEN getMessage(Head(subs).warnOnLeave)
                ELSE Head(subs).message
       IN dispatchRoute(Tail(subs), confirmed,
            [kind |-> "routeChangeStart", prevented |-> ~confirmed, message |-> m])

\* ------------------------------------------------------------- histories

\* the effect of a run of the autosave effect on the burst histories: a
\* burst starts when a timeout is set while none is pending
BurstN(d, ts, n) == IF d > 0 THEN (IF ts = {} THEN 1 ELSE n + 1) ELSE n
Autosaved(d, ts, a) == IF d > 0 /\ ts = {} THEN <<>> ELSE a

\* lastSaved after a save of v under k that succeeded iff ok
Saved(ls, k, v, ok) == IF ok /\ k = MountKey THEN <<v>> ELSE ls

\* owed after a run of the autosave effect for k and v, whose save (made
\* at once when there is no delay) succeeded iff ok
Owed(d, k, v, ok) == IF d > 0 \/ ok THEN <<[key |-> k, value |-> v]>> ELSE <<>>

\* ------------------------------------------------------------------ steps

Init ==
  /\ storage \in InitStorages
  /\ mounted = FALSE
  /\ storageKey = MountKey
  /\ currentFormState = InitialForm
  /\ debounce = DefaultDebounce
  /\ hasDraft = FALSE
  /\ initialDraft = JsNull
  /\ queued = NoUpdates
  /\ timers = {}
  /\ sinkCalls = <<>>
  /\ restoreCalls = <<>>
  /\ lastSaved = <<>>
  /\ burstN = 0
  /\ autosaved = <<>>
  /\ cleared = "no"
  /\ afterClear = "none"
  /\ owed = <<>>
  /\ variant = DefaultGuard.variant
  /\ warnOnLeave = DefaultGuard.warnOnLeave
  /\ router = DefaultGuard.router
  /\ unloadListeners = <<>>
  /\ routeSubs = <<>>
  /\ signal = NoSignal

\* The component mounts: first render with key k, form value v0 and options
\* d (debounce) and cb (onRestore given), then its effects in order: the
\* restore effect, then the autosave effect.  The instance starts with fresh
\* state (useState(false), useState(null), useRef(null)).  A mount follows
\* an unmount only once the timeouts the earlier instance left have fired.
Mount(k, v0, d, cb, getOk, setOk, g) ==
  /\ ~mounted
  /\ timers = {}
  /\ LET r == restoreEffect(storage, k, cb, getOk)
         e == autosaveEffect(storage, r.queued, timers, d, k, v0, setOk)
     IN /\ storage' = e.storage
        /\ queued' = e.queued
        /\ timers' = e.timers
        /\ sinkCalls' = r.sink
        /\ restoreCalls' = r.callback
  /\ lastSaved' = IF d > 0 THEN lastSaved ELSE Saved(lastSaved, k, v0, setOk)
  /\ burstN' = BurstN(d, timers, burstN)
  /\ autosaved' = Autosaved(d, timers, autosaved)
  /\ mounted' = TRUE
  /\ storageKey' = k
  /\ currentFormState' = v0
  /\ debounce' = d
  /\ hasDraft' = FALSE
  /\ initialDraft' = JsNull
  /\ cleared' = "no"
  /\ afterClear' = "none"
  /\ owed' = Owed(d, k, v0, setOk)
  /\ variant' = g.variant
  /\ warnOnLeave' = g.warnOnLeave
  /\ router' = g.router
  /\ unloadListeners' = unloadEffect(unloadListeners, g.variant, g.warnOnLeave)
  /\ routeSubs' = routerEffect(routeSubs, g.variant, g.warnOnLeave, g.router)
  /\ signal' = NoSignal

\* React commits the queued state updates and re-renders; the autosave
\* effect runs again when the form value was replaced (its only dependency).
Render(setOk) ==
  /\ mounted
  /\ queued # NoUpdates
  /\ hasDraft' = IF queued.hasDraft # <<>> THEN queued.hasDraft[1] ELSE hasDraft
  /\ initialDraft' = IF queued.initialDraft # <<>> THEN queued.initialDraft[1] ELSE initialDraft
  /\ IF queued.form # <<>>
     THEN LET v == queued.form[1]
              e == autosaveEffect(storage, NoUpdates, timers, debounce, storageKey, v, setOk)
          IN /\ currentFormState' = v
             /\ storage' = e.storage
             /\ queued' = e.queued
             /\ timers' = e.timers
             /\ lastSaved' = IF debounce > 0 THEN lastSaved
                             ELSE Saved(lastSaved, storageKey, v, setOk)
             /\ burstN' = BurstN(debounce, timers, burstN)
             /\ autosaved' = Autosaved(debounce, timers, autosaved)
             /\ owed' = Owed(debounce, storageKey, v, setOk)
             /\ afterClear' = "none"
     ELSE /\ queued' = NoUpdates
          /\ UNCHANGED <<currentFormState, storage, timers, lastSaved, burstN, autosaved,
                         owed, afterClear>>
  /\ UNCHANGED <<mounted, storageKey, debounce, sinkCalls, restoreCalls, cleared>>
  /\ UNCHANGED guardVars

\* The parent replaces the form value by v (a new object, whatever its
\* content) and re-renders; the autosave effect runs.
Change(v, setOk) ==
  /\ mounted
  /\ queued = NoUpdates
  /\ debounce > 0 => burstN < MaxBurst
  /\ LET e == autosaveEffect(storage, NoUpdates, timers, debounce, storageKey, v, setOk)
     IN /\ storage' = e.storage
        /\ queued' = e.queued
        /\ timers' = e.timers
  /\ currentFormState' = v
  /\ lastSaved' = IF debounce > 0 THEN lastSaved ELSE Saved(lastSaved, storageKey, v, setOk)
  /\ burstN' = BurstN(debounce, timers, burstN)
  /\ autosaved' = Autosaved(debounce, timers, autosaved)
  /\ owed' = Owed(debounce, storageKey, v, setOk)
  /\ afterClear' = "none"
  /\ UNCHANGED <<mounted, storageKey, debounce, hasDraft, initialDraft, sinkCalls,
                 restoreCalls, cleared>>
  /\ UNCHANGED guardVars

\* The parent re-renders with another storageKey k (and options with or
\* without onRestore): the restore effect runs for k; the autosave effect
\* does not (the form value is the same object).
KeyChange(k, cb, getOk) ==
  /\ mounted
  /\ queued = NoUpdates
  /\ k # storageKey
  /\ debounce > 0 => burstN < MaxBurst
  /\ LET r == restoreEffect(storage, k, cb, getOk)
     IN /\ queued' = r.queued
        /\ sinkCalls' = r.sink
        /\ restoreCalls' = r.callback
  /\ storageKey' = k
  /\ cleared' = "no"
  /\ afterClear' = "none"
  /\ owed' = <<>>
  /\ UNCHANGED <<storage, mounted, currentFormState, debounce, hasDraft, initialDraft,
                 timers, lastSaved, burstN, autosaved>>
  /\ UNCHANGED guardVars

\* The caller calls the saveDraft of the last render.
SaveDraft(setOk) ==
  /\ mounted
  /\ queued = NoUpdates
  /\ LET s == saveDraft(storage, NoUpdates, storageKey, currentFormState, setOk)
     IN /\ storage' = s.storage
        /\ queued' = s.queued
  /\ lastSaved' = Saved(lastSaved, storageKey, currentFormState, setOk)
  /\ owed' = IF setOk THEN owed ELSE <<>>
  /\ afterClear' = "none"
  /\ UNCHANGED <<mounted, storageKey, currentFormState, debounce, hasDraft, initialDraft,
                 timers, sinkCalls, restoreCalls, burstN, autosaved, cleared>>
  /\ UNCHANGED guardVars

\* The caller calls the clearDraft of the last render, passing
\* {submitted: true} or nothing.
ClearDraft(submitted, rmOk) ==
  /\ mounted
  /\ queued = NoUpdates
  /\ LET c == clearDraft(storage, NoUpdates, storageKey, submitted, rmOk)
     IN /\ storage' = c.storage
        /\ queued' = c.queued
  /\ lastSaved' = IF rmOk /\ storageKey = MountKey THEN <<>> ELSE lastSaved
  /\ cleared' = IF rmOk THEN (IF submitted THEN "submitted" ELSE "plain") ELSE cleared
  /\ afterClear' = IF rmOk THEN "cleared" ELSE "failed"
  /\ owed' = <<>>
  /\ UNCHANGED <<mounted, storageKey, currentFormState, debounce, hasDraft, initialDraft,
                 timers, sinkCalls, restoreCalls, burstN, autosaved>>
  /\ UNCHANGED guardVars

\* A pending timeout fires and runs the saveDraft of the render that set
\* it.  Its setHasDraft reaches the hook's state only while the instance is
\* still mounted.
TimerFire(t, setOk) ==
  /\ t \in timers
  /\ queued = NoUpdates
  /\ LET s == saveDraft(storage, NoUpdates, t.key, t.value, setOk)
     IN /\ storage' = s.storage
        /\ queued' = IF mounted THEN s.queued ELSE NoUpdates
  /\ timers' = timers \ {t}
  /\ lastSaved' = Saved(lastSaved, t.key, t.value, setOk)
  /\ autosaved' = IF mounted THEN Append(autosaved, t.value) ELSE autosaved
  /\ owed' = IF setOk THEN owed ELSE <<>>
  /\ UNCHANGED <<mounted, storageKey, currentFormState, debounce, hasDraft, initialDraft,
                 sinkCalls, restoreCalls, burstN, cleared, afterClear>>
  /\ UNCHANGED guardVars

\* The component unmounts.  No effect of the hook returns a cleanup for the
\* timeout, so a pending timeout stays pending.  React discards the
\* instance's state, which is shown by resetting it to its initial values.
Unmount ==
  /\ mounted
  /\ queued = NoUpdates
  /\ mounted' = FALSE
  /\ storageKey' = MountKey
  /\ currentFormState' = InitialForm
  /\ debounce' = DefaultDebounce
  /\ hasDraft' = FALSE
  /\ initialDraft' = JsNull
  /\ sinkCalls' = <<>>
  /\ restoreCalls' = <<>>
  /\ burstN' = 0
  /\ autosaved' = <<>>
  /\ cleared' = "no"
  /\ afterClear' = "none"
  /\ owed' = <<>>
  /\ unloadListeners' = unloadCleanup(unloadListeners, variant, warnOnLeave)
  /\ routeSubs' = routerCleanup(routeSubs, variant, warnOnLeave, router)
  /\ variant' = DefaultGuard.variant
  /\ warnOnLeave' = DefaultGuard.warnOnLeave
  /\ router' = DefaultGuard.router
  /\ signal' = NoSignal
  /\ UNCHANGED <<storage, queued, timers, lastSaved>>

\* The parent re-renders with other options warnOnLeave = w and router = r.
\* The beforeunload effect (deps [warnOnLeave]) and the router effect (deps
\* [warnOnLeave, router]) run again where a dependency changed, each after
\* the cleanup of its previous run.
Reconfigure(w, r) ==
  /\ mounted
  /\ queued = NoUpdates
  /\ <<w, r>> # <<warnOnLeave, router>>
  /\ warnOnLeave' = w
  /\ router' = r
  /\ unloadListeners' =
       IF w # warnOnLeave
       THEN unloadEffect(unloadCleanup(unloadListeners, variant, warnOnLeave), variant, w)
       ELSE unloadListeners
  /\ routeSubs' =
       routerEffect(routerCleanup(routeSubs, variant, warnOnLeave, router), variant, w, r)
  /\ signal' = Reconfigured
  /\ UNCHANGED <<storage, mounted, storageKey, currentFormState, debounce, hasDraft,
                 initialDraft, queued, timers, sinkCalls, restoreCalls, lastSaved, burstN,
                 autosaved, cleared, afterClear, owed, variant>>

\* The browser is about to unload the page and dispatches beforeunload.
BeforeUnload ==
  /\ queued = NoUpdates
  /\ signal' = dispatchUnload(unloadListeners,
                  [kind |-> "beforeunload", prevented |-> FALSE, message |-> ""])
  /\ UNCHANGED <<storage, mounted, storageKey, currentFormState, debounce, hasDraft,
                 initialDraft, queued, timers, sinkCalls, restoreCalls, lastSaved, burstN,
                 autosaved, cleared, afterClear, owed, variant, warnOnLeave, router,
                 unloadListeners,
                 routeSubs>>

\* A navigation inside the application starts; the user confirms what is
\* asked, or refuses.
RouteChangeStart(confirmed) ==
  /\ mounted
  /\ queued = NoUpdates
  /\ signal' = dispatchRoute(routeSubs, confirmed,
                  [kind |-> "routeChangeStart", prevented |-> FALSE, message |-> ""])
  /\ UNCHANGED <<storage, mounted, storageKey, currentFormState, debounce, hasDraft,
                 initialDraft, queued, timers, sinkCalls, restoreCalls, lastSaved, burstN,
                 autosaved, cleared, afterClear, owed, variant, warnOnLeave, router,
                 unloadListeners,
                 routeSubs>>

Next ==
  \/ \E d \in DebounceOptions, cb \in BOOLEAN, getOk \in BOOLEAN, setOk \in BOOLEAN :
       Mount(MountKey, InitialForm, d, cb, getOk, setOk, DefaultGuard)
  \/ \E setOk \in BOOLEAN : Render(setOk)
  \/ \E v \in FormValues, setOk \in BOOLEAN : Change(v, setOk)
  \/ \E k \in DraftKeys, cb \in BOOLEAN, getOk \in BOOLEAN : KeyChange(k, cb, getOk)
  \/ \E setOk \in BOOLEAN : SaveDraft(setOk)
  \/ \E submitted \in BOOLEAN, rmOk \in BOOLEAN : ClearDraft(submitted, rmOk)
  \/ \E t \in timers, setOk \in BOOLEAN : TimerFire(t, setOk)
  \/ Unmount

Spec == Init /\ [][Next]_vars

\* The browser runs every timeout that stays pending, and React renders
\* whenever state updates are queued.
FairSpec ==
  /\ Spec
  /\ WF_vars(\E t \in timers, setOk \in BOOLEAN : TimerFire(t, setOk))
  /\ WF_vars(\E setOk \in BOOLEAN : Render(setOk))

\* The hook with every way of guarding the leave, on a store that holds
\* at most a draft under MountKey, and with a form that the parent leaves
\* alone.
GuardInit == Init /\ DOMAIN storage \subseteq {MountKey}

GuardNext ==
  \/ \E d \in DebounceOptions, cb \in BOOLEAN, getOk \in BOOLEAN, setOk \in BOOLEAN,
        g \in GuardOptions :
       Mount(MountKey, InitialForm, d, cb, getOk, setOk, g)
  \/ \E setOk \in BOOLEAN : Render(setOk)
  \/ \E t \in timers, setOk \in BOOLEAN : TimerFire(t, setOk)
  \/ \E w \in WarnOptions, r \in Routers : Reconfigure(w, r)
  \/ BeforeUnload
  \/ \E confirmed \in BOOLEAN : RouteChangeStart(confirmed)
  \/ Unmount

GuardSpec == GuardInit /\ [][GuardNext]_vars

\* ----------------------------------------------------------------- claims

\* a step that activates the hook on key k: a mount with k, or a change of
\* the storageKey to k; cb: onRestore is given, getOk: the store is readable
Activate(k, cb, getOk) ==
  /\ mounted' /\ storageKey' = k /\ (~mounted \/ storageKey # k)
  /\ \/ \E d \in DebounceOptions, setOk \in BOOLEAN :
          Mount(k, InitialForm, d, cb, getOk, setOk, DefaultGuard)
     \/ KeyChange(k, cb, getOk)

\* C1: activating on key K, with no Submitted Flag for K and a Stored Draft
\* under K that deserializes to v, calls the form-state sink with v, sets
\* initialDraft to v and hasDraft to true, and calls onRestore (when given)
\* with v; once React has rendered, hasDraft is true and initialDraft is v.
C1_Step ==
  \A k \in DraftKeys, cb \in BOOLEAN :
    (~Submitted(storage, k) /\ Activate(k, cb, TRUE))
    => \A v \in JsonValues :
         getItem(storage, k) = <<JSONstringify(v)>>
         => /\ sinkCalls' = <<v>>
            /\ queued'.form = <<v>>
            /\ queued'.initialDraft = <<v>>
            /\ queued'.hasDraft = <<TRUE>>
            /\ restoreCalls' = IF cb THEN <<v>> ELSE <<>>
C1_Committed ==
  (sinkCalls # <<>> /\ cleared = "no" /\ queued = NoUpdates)
    => (hasDraft /\ initialDraft = sinkCalls[1])
C1_RestoreApplied == [][C1_Step /\ C1_Committed']_vars
C1_Witness ==
  /\ mounted /\ queued = NoUpdates /\ ~Submitted(storage, storageKey)
  /\ sinkCalls = <<Vba>> /\ restoreCalls = <<Vba>>
  /\ hasDraft /\ initialDraft = Vba /\ currentFormState = Vba

\* C2: if the Submitted Flag of K is "true" when the hook is activated on K,
\* the restore step does not call the form-state sink and sets neither
\* initialDraft nor hasDraft, whatever is stored under K.
C2_SubmittedSkipsRestore ==
  [][\A k \in DraftKeys, cb \in BOOLEAN, getOk \in BOOLEAN :
       (Submitted(storage, k) /\ Activate(k, cb, getOk))
       => /\ sinkCalls' = <<>>
          /\ queued'.form = <<>>
          /\ queued'.initialDraft = <<>>
          /\ (debounce' > 0 => queued'.hasDraft = <<>>)]_vars

\* a value without its properties whose value is undefined
Definite(v) == IF v.t = "null" THEN v ELSE Obj(SelectSeq(v.props, IsDefined))

\* a mount that finds the store readable
FreshActivation(cb) ==
  /\ ~mounted /\ mounted'
  /\ \E d \in DebounceOptions, setOk \in BOOLEAN :
       Mount(MountKey, InitialForm, d, cb, TRUE, setOk, DefaultGuard)

\* C3 (as stated): a successful save of v under K, with no clear after it,
\* followed by a fresh activation on K calls the form-state sink with
\* exactly v, for every form value v.
C3_RoundTrip ==
  [][\A cb \in BOOLEAN :
       (lastSaved # <<>> /\ FreshActivation(cb)) => sinkCalls' = lastSaved]_vars

\* C3 (amended): the sink is called with v less its undefined-valued
\* properties; that is exactly v for every v that JSON text can denote.
C3_RoundTripJson ==
  [][\A cb \in BOOLEAN :
       (lastSaved # <<>> /\ FreshActivation(cb))
       => /\ sinkCalls' = <<Definite(lastSaved[1])>>
          /\ lastSaved[1] \in JsonValues => sinkCalls' = lastSaved]_vars
C3_Witness ==
  /\ mounted /\ storageKey = MountKey /\ debounce > 0
  /\ lastSaved = <<Vba>> /\ sinkCalls = <<Vba>> /\ queued.form = <<Vba>>
  /\ ~hasDraft /\ initialDraft = JsNull

\* C4: from the first change that sets the timeout, through every change
\* that arrives while it is pending, to its firing, the autosave writes
\* once, and what it writes is the last of these values.
C4_Coalesced ==
  (mounted /\ debounce > 0 /\ burstN >= 1)
    => IF timers # {} THEN autosaved = <<>> ELSE autosaved = <<currentFormState>>
C4_Written ==
  \A t \in timers :
    (mounted /\ TimerFire(t, TRUE))
    => getItem(storage', t.key) = <<JSONstringify(currentFormState)>>
C4_DebounceCoalescing == [][C4_Written /\ C4_Coalesced']_vars
C4_Witness ==
  /\ mounted /\ debounce > 0 /\ burstN >= 2 /\ timers = {} /\ queued = NoUpdates
  /\ currentFormState = Vba /\ autosaved = <<Vba>>
  /\ getItem(storage, storageKey) = <<JSONstringify(Vba)>>

\* C5: with the debounce option 0 or left out, a change of the form value
\* does not save in the step of the change; a timeout is set instead.
C5_ZeroDelayFloor ==
  [][\A v \in FormValues, setOk \in BOOLEAN :
       (mounted /\ debounce = DefaultDebounce /\ Change(v, setOk))
       => (storage' = storage /\ timers' # {})]_vars

\* C6: while the hook stays active on its key, a change of the form value
\* to v that no further change, no clear and no failing store follows leads
\* to a store that holds the serialization of v under the key.
C6_AutosaveLiveness ==
  \A k \in DraftKeys, v \in FormValues :
    (mounted /\ owed = <<[key |-> k, value |-> v]>>)
      ~> (\/ getItem(storage, k) = <<JSONstringify(v)>>
          \/ owed # <<[key |-> k, value |-> v]>>)
C6_Witness ==
  /\ mounted /\ debounce > 0 /\ timers = {} /\ queued = NoUpdates
  /\ owed = <<[key |-> storageKey, value |-> Vba]>> /\ autosaved = <<Vba>>
  /\ getItem(storage, storageKey) = <<JSONstringify(Vba)>>

\* C7: a call of saveDraft whose write the store accepts leaves the
\* serialization of the current form value under the key and sets hasDraft
\* to true (committed by the render that follows), whether or not a
\* timeout is pending.
C7_SaveNow ==
  [][/\ (mounted /\ queued = NoUpdates /\ SaveDraft(TRUE))
        => /\ getItem(storage', storageKey) = <<JSONstringify(currentFormState)>>
           /\ queued'.hasDraft = <<TRUE>>
           /\ timers' = timers
     /\ \A setOk \in BOOLEAN :
          (mounted /\ queued.hasDraft = <<TRUE>> /\ Render(setOk)) => hasDraft']_vars
C7_Witness ==
  /\ mounted /\ debounce > 0 /\ timers # {} /\ currentFormState = Vba
  /\ queued = [NoUpdates EXCEPT !.hasDraft = <<TRUE>>]
  /\ getItem(storage, storageKey) = <<JSONstringify(Vba)>>

\* C8: after clearDraft(opts) returns, nothing is stored under the key,
\* hasDraft is set to false and initialDraft to empty, and the Submitted
\* Flag of the key is "true" when opts.submitted is true, absent otherwise.
C8_ClearPostcondition ==
  [][\A submitted \in BOOLEAN :
       (mounted /\ queued = NoUpdates /\ ClearDraft(submitted, TRUE))
       => /\ getItem(storage', storageKey) = <<>>
          /\ queued'.hasDraft = <<FALSE>>
          /\ queued'.initialDraft = <<JsNull>>
          /\ getItem(storage', SubmittedKey(storageKey))
               = IF submitted THEN <<"true">> ELSE <<>>]_vars

\* C9: after clearDraft with submitted = true, a later save under the same
\* key that the store accepts (saveDraft called, or the timeout firing)
\* leaves the Submitted Flag of the key absent.
C9_SubmitThenEdit ==
  [][(/\ mounted /\ cleared = "submitted" /\ queued = NoUpdates
      /\ \/ SaveDraft(TRUE)
         \/ \E t \in timers : t.key = storageKey /\ TimerFire(t, TRUE))
     => getItem(storage', SubmittedKey(storageKey)) = <<>>]_vars

\* the properties of a value, as a set
Props(v) == {v.props[i] : i \in DOMAIN v.props}

\* deep equality of two values: the same properties with the same values,
\* in whatever order
StructEq(v, w) == v.t = w.t /\ Props(v) = Props(w)

\* the hook has restored a value, has rendered since, and no clearDraft
\* has followed
Restored == mounted /\ sinkCalls # <<>> /\ cleared = "no" /\ queued = NoUpdates

DefaultMessage(vr) == IF vr = "index" THEN IndexMessage ELSE RouterMessage

\* what the claimed policy makes of a beforeunload, for what warnOnLeave is
\* or returns
PolicyOutcome(vr, w) ==
  LET res == Call(w)
  IN IF ~Truthy(res)
     THEN [kind |-> "beforeunload", prevented |-> FALSE, message |-> ""]
     ELSE [kind |-> "beforeunload", prevented |-> TRUE,
           message |-> IF res.t = "string" THEN res.s ELSE DefaultMessage(vr)]

\* C11: with warnOnLeave configured, a beforeunload evaluates it (calling
\* it when it is a function): a falsy result lets the unload proceed with
\* no preventDefault and no message, a string prevents it with that string
\* as message, another truthy result prevents it with the default message.
C11_UnloadPolicy ==
  [][(mounted /\ Truthy(warnOnLeave) /\ BeforeUnload)
     => signal' = PolicyOutcome(variant, warnOnLeave)]_vars

\* C12: with a router that has onRouteChangeStart and offRouteChangeStart,
\* the start of a route change clears the draft: nothing is stored under
\* the key any more and hasDraft is set to false.
C12_NavigationClears ==
  [][\A confirmed \in BOOLEAN :
       (/\ mounted /\ variant = "router" /\ router = "pages" /\ Truthy(warnOnLeave)
        /\ RouteChangeStart(confirmed))
       => /\ getItem(storage', storageKey) = <<>>
          /\ queued'.hasDraft = <<FALSE>>]_vars

C14_SaveFailure ==
  [][(/\ mounted /\ queued = NoUpdates
      /\ \/ SaveDraft(FALSE)
         \/ \E t \in timers : TimerFire(t, FALSE)
         \/ debounce = 0 /\ \E v \in FormValues : Change(v, FALSE))
     => (storage' = storage /\ queued' = NoUpdates /\ hasDraft' = hasDraft)]_vars
C14_Witness ==
  /\ mounted /\ debounce > 0 /\ timers = {} /\ queued = NoUpdates
  /\ autosaved = <<Vba>> /\ ~hasDraft
  /\ \A k \in DraftKeys : getItem(storage, k) = <<Corrupt>>

\* C15: from the activation on a key until the restored value is applied,
\* the autosave writes nothing under the key: a mount that finds a draft
\* stored leaves it stored as it is, whatever the debounce option.
C15_RestoreGating ==
  [][\A cb \in BOOLEAN :
       (/\ getItem(storage, MountKey) # <<>> /\ JSONparses(storage[MountKey])
        /\ FreshActivation(cb))
       => getItem(storage', MountKey) = getItem(storage, MountKey)]_vars

\* C16: once the key has changed, the timeout that was set under the old
\* key is cancelled: it never fires.
C16_KeyChangeCancels ==
  [][~(\E t \in timers, setOk \in BOOLEAN :
         mounted /\ t.key # storageKey /\ TimerFire(t, setOk))]_vars

\* C17: after the unmount no timeout of the hook fires, so the store is
\* not written any more.
C17_UnmountCancels ==
  [][(~mounted /\ ~mounted')
     => (storage' = storage /\ ~(\E t \in timers, setOk \in BOOLEAN : TimerFire(t, setOk)))]_vars

\* C18: whatever the options become and whenever the hook unmounts, at
\* most one beforeunload listener and at most one route-change handler or
\* block are installed, they are those of the current options (those of the
\* previous options are removed before), and none is left after the unmount.
C18_GuardTeardown ==
  /\ Len(unloadListeners) <= 1
  /\ Len(routeSubs) <= 1
  /\ mounted => /\ unloadListeners = unloadEffect(<<>>, variant, warnOnLeave)
                /\ routeSubs = routerEffect(<<>>, variant, warnOnLeave, router)
  /\ ~mounted => (unloadListeners = <<>> /\ routeSubs = <<>>)
C18_Witness ==
  /\ mounted /\ signal = Reconfigured /\ router = "pages"
  /\ warnOnLeave = Fn(Str(CustomMessage))
  /\ Len(unloadListeners) = 1 /\ Len(routeSubs) = 1

\* C19: the hook has at most one timeout pending at any time: setting a
\* timeout on a change cancels the one that was pending.
C19_SingleTimer == Cardinality(timers) <= 1
C19_Witness ==
  /\ mounted /\ debounce > 0 /\ burstN >= 2 /\ currentFormState = Vba
  /\ timers = {[key |-> storageKey, value |-> Vba]}

\* C20: once the restore for the current key is done and rendered, hasDraft
\* is true if and only if something is stored under the current key.
C20_HasDraftConsistent ==
  (mounted /\ queued = NoUpdates) => (hasDraft <=> getItem(storage, storageKey) # <<>>)

\* C21 (as stated): a clearDraft whose removal fails still sets hasDraft
\* to false and initialDraft to empty.
C21_ClearFailureResets ==
  [][\A submitted \in BOOLEAN :
       (mounted /\ queued = NoUpdates /\ ClearDraft(submitted, FALSE))
       => (queued'.hasDraft = <<FALSE>> /\ queued'.initialDraft = <<JsNull>>)]_vars

\* C21 (amended): a clearDraft whose removal fails changes nothing: the
\* store, hasDraft and initialDraft are what they were, and no state update
\* is queued.
C21_ClearFailureKeeps ==
  [][\A submitted \in BOOLEAN :
       (mounted /\ queued = NoUpdates /\ ClearDraft(submitted, FALSE))
       => /\ storage' = storage /\ queued' = NoUpdates
          /\ hasDraft' = hasDraft /\ initialDraft' = initialDraft]_vars
C21_Witness ==
  /\ mounted /\ afterClear = "failed" /\ queued = NoUpdates
  /\ hasDraft /\ initialDraft = Vba
  /\ getItem(storage, storageKey) = <<JSONstringify(Vba)>>

\* C22: during one activation on a key, whatever changes, saves and clears
\* happen, the hook calls the form-state sink at most once and onRestore at
\* most once, and onRestore only with the value it gave the sink: both are
\* called by the activating step alone.
C22_Once ==
  /\ Len(sinkCalls) <= 1
  /\ Len(restoreCalls) <= 1
  /\ restoreCalls # <<>> => restoreCalls = sinkCalls
C22_RestoreOnce ==
  [][/\ C22_Once'
     /\ (mounted /\ mounted' /\ storageKey' = storageKey)
          => (sinkCalls' = sinkCalls /\ restoreCalls' = restoreCalls)]_vars
C22_Witness ==
  /\ mounted /\ storageKey = MountKey /\ queued = NoUpdates
  /\ sinkCalls = <<Vba>> /\ restoreCalls = <<Vba>>
  /\ cleared = "plain" /\ lastSaved = <<Vab>> /\ currentFormState = Vab

\* the empty or default value of the form: no value, or what the form
\* holds at its first render
IsDefault(v) == v = JsNull \/ v = InitialForm

\* C23: while initialDraft is empty, isDirty is false when the form value
\* is the empty or default value, and true for every other value.
C23_DirtyEmptyBaseline ==
  (mounted /\ queued = NoUpdates /\ initialDraft = JsNull)
    => (isDirty <=> ~IsDefault(currentFormState))

\* the router variant warns on leave and was handed a router that has
\* neither onRouteChangeStart with offRouteChangeStart nor block
Unsupported ==
  mounted /\ variant = "router" /\ Truthy(warnOnLeave) /\ router \in {"app", "unknown"}

\* C24: with a router that has neither the route-change events nor block,
\* the router effect installs nothing on it, a navigation goes through
\* unasked, and the effect's cleanup removes nothing from the router.
C24_UnsupportedHost ==
  [][/\ Unsupported' => routeSubs' = <<>>
     /\ \A confirmed \in BOOLEAN :
          (Unsupported /\ RouteChangeStart(confirmed))
            => (~signal'.prevented /\ signal'.message = "")
     /\ (Unsupported /\ (~mounted' \/ <<warnOnLeave', router'>> # <<warnOnLeave, router>>))
          => /\ routerCleanup(routeSubs, variant, warnOnLeave, router) = routeSubs
             /\ Len(routeSubs') <= 1]_vars
C24_Witness ==
  /\ Unsupported
  /\ router = "unknown"
  /\ warnOnLeave = Str(CustomMessage)
  /\ Len(unloadListeners) = 1
  /\ routeSubs = <<>>
  /\ signal = [kind |-> "routeChangeStart", prevented |-> FALSE, message |-> ""]

\* C25: after clearDraft has removed the draft, and until the form value
\* changes or saveDraft is called, nothing is stored under the key and
\* hasDraft is false once rendered; a timeout that was pending at the clear
\* does not write the draft again.
C25_ClearNotUndone ==
  [][(mounted /\ afterClear = "cleared" /\ afterClear' = "cleared")
       => /\ getItem(storage', storageKey') = <<>>
          /\ queued'.hasDraft # <<TRUE>>
          /\ queued' = NoUpdates => ~hasDraft']_vars

====
